---- MODULE Spec2Model ----
(***************************************************************************)
(* A model of org_mcp/server.py: the heading parser (extract_headings),    *)
(* the heading rewriter (modify_heading), the scheduled-item extractor     *)
(* (extract_scheduled_items) and the manual-parsing paths of               *)
(* get_org_schedule / get_org_agenda.                                      *)
(*                                                                         *)
(* A Python str is a sequence of symbols.  A symbol is one character       *)
(* ("*", " ", "\t", "\n", "<", ">", a lower-case letter) or one keyword    *)
(* or date written in full ("TODO", "DONE", "IN-PROGRESS", "SCHEDULED:",   *)
(* "DEADLINE:", "2024-01-10").  No symbol is a prefix or a suffix of a     *)
(* string of other symbols, so ==, startswith, endswith and the regular    *)
(* expressions of the source act on symbol sequences exactly as they act   *)
(* on the characters.  An Optional value is <<>> (None) or <<v>>.          *)
(***************************************************************************)
EXTENDS Integers, Sequences, FiniteSets, TLC

VARIABLES files, calls, op, arg, loc, ret

vars == <<files, calls, op, arg, loc, ret>>

-----------------------------------------------------------------------------
(* Python values                                                           *)

None == <<>>

Some(v) == <<v>>

\* re's \s restricted to the symbols of the model
Whitespace == {" ", "\t", "\n"}

Keywords == {"TODO", "DONE", "IN-PROGRESS"}

Min(S) == CHOOSE m \in S : \A n \in S : m <= n

\* s[i:] with a 1-based i
Drop(s, i) == SubSeq(s, i, Len(s))

\* s.startswith(p)
StartsWith(s, p) == Len(p) <= Len(s) /\ SubSeq(s, 1, Len(p)) = p

\* s.endswith(p)
EndsWith(s, p) == Len(p) <= Len(s) /\ SubSeq(s, Len(s) - Len(p) + 1, Len(s)) = p

\* str.splitlines(): the pieces between line breaks; a final line break opens
\* no further piece, and "" has no pieces
RECURSIVE SplitLines(_)
SplitLines(s) ==
    IF s = <<>> THEN <<>>
    ELSE LET brk == {i \in 1..Len(s) : s[i] = "\n"}
         IN IF brk = {} THEN <<s>>
            ELSE <<SubSeq(s, 1, Min(brk) - 1)>> \o SplitLines(Drop(s, Min(brk) + 1))

\* sep.join(ls)
RECURSIVE JoinWith(_, _)
JoinWith(sep, ls) ==
    IF ls = <<>> THEN <<>>
    ELSE IF Len(ls) = 1 THEN ls[1]
    ELSE ls[1] \o sep \o JoinWith(sep, Tail(ls))

\* "\n".join(ls)
Join(ls) == JoinWith(<<"\n">>, ls)

\* length of the longest prefix of s made of symbols of the set cs
RECURSIVE Run(_, _)
Run(s, cs) == IF s # <<>> /\ s[1] \in cs THEN 1 + Run(Tail(s), cs) ELSE 0

-----------------------------------------------------------------------------
(* extract_headings                                                        *)

\* heading_pattern = ^(\*+)\s+(.*)$ matched against one line: the greedy \*+
\* takes every leading star, the greedy \s+ every blank after them
HeadingMatch(line) ==
    LET k == Run(line, {"*"})
        w == Run(Drop(line, k + 1), Whitespace)
    IN [matched |-> k >= 1 /\ w >= 1, stars |-> k, text |-> Drop(line, k + w + 1)]

IsHeadingLine(line) == HeadingMatch(line).matched

\* TodoMatch with \s* for \s+: a keyword with nothing after it is taken as a state
TodoMatchOptionalBlank(title) ==
    LET w == Run(Tail(title), Whitespace)
    IN IF title # <<>> /\ title[1] \in Keywords
       THEN [matched |-> TRUE, state |-> <<title[1]>>, rest |-> Drop(title, w + 2)]
       ELSE [matched |-> FALSE, state |-> <<>>, rest |-> title]

\* TodoMatch with the blanks inside the second group, (TODO|DONE|IN-PROGRESS)(\s+.*)
TodoMatchKeepBlank(title) ==
    LET w == Run(Tail(title), Whitespace)
    IN IF title # <<>> /\ title[1] \in Keywords /\ w >= 1
       THEN [matched |-> TRUE, state |-> <<title[1]>>, rest |-> Drop(title, 2)]
       ELSE [matched |-> FALSE, state |-> <<>>, rest |-> title]

\* re.match(r"(TODO|DONE|IN-PROGRESS)\s+(.*)", title)
TodoMatch(title) ==
    LET w == Run(Tail(title), Whitespace)
    IN IF title # <<>> /\ title[1] \in Keywords /\ w >= 1
       THEN [matched |-> TRUE, state |-> <<title[1]>>, rest |-> Drop(title, w + 2)]
       ELSE [matched |-> FALSE, state |-> <<>>, rest |-> title]

\* the dict built for one heading line; "content" is filled in when the heading
\* is closed
NewHeading(line) ==
    LET hm == HeadingMatch(line)
        tm == TodoMatch(hm.text)
    IN [level |-> hm.stars,
        title |-> IF tm.matched THEN tm.rest ELSE hm.text,
        raw |-> line,
        todo_state |-> IF tm.matched THEN Some(tm.state) ELSE None,
        content |-> <<>>]

\* CloseHeading with " ".join for "\n".join
CloseHeadingSpaces(h, heading_content) ==
    [h EXCEPT !.content = JoinWith(<<" ">>, heading_content)]

\* current_heading["content"] = "\n".join(heading_content)
CloseHeading(h, heading_content) == [h EXCEPT !.content = Join(heading_content)]

\* ScanLines without heading_content = []: a heading's content goes on into
\* the content of the headings after it
RECURSIVE ScanLinesNoReset(_, _, _, _, _)
ScanLinesNoReset(lines, i, headings, current_heading, heading_content) ==
    IF i > Len(lines)
    THEN IF current_heading # None
         THEN Append(headings, CloseHeading(current_heading[1], heading_content))
         ELSE headings
    ELSE IF IsHeadingLine(lines[i])
    THEN ScanLinesNoReset(lines, i + 1,
                   IF current_heading # None
                   THEN Append(headings, CloseHeading(current_heading[1], heading_content))
                   ELSE headings,
                   Some(NewHeading(lines[i])),
                   heading_content)
    ELSE IF current_heading # None
    THEN ScanLinesNoReset(lines, i + 1, headings, current_heading,
                   Append(heading_content, lines[i]))
    ELSE ScanLinesNoReset(lines, i + 1, headings, current_heading, heading_content)

\* the loop over content.splitlines(), from line i on
RECURSIVE ScanLines(_, _, _, _, _)
ScanLines(lines, i, headings, current_heading, heading_content) ==
    IF i > Len(lines)
    THEN IF current_heading # None
         THEN Append(headings, CloseHeading(current_heading[1], heading_content))
         ELSE headings
    ELSE IF IsHeadingLine(lines[i])
    THEN ScanLines(lines, i + 1,
                   IF current_heading # None
                   THEN Append(headings, CloseHeading(current_heading[1], heading_content))
                   ELSE headings,
                   Some(NewHeading(lines[i])),
                   <<>>)
    ELSE IF current_heading # None
    THEN ScanLines(lines, i + 1, headings, current_heading,
                   Append(heading_content, lines[i]))
    ELSE ScanLines(lines, i + 1, headings, current_heading, heading_content)

ExtractHeadings(content) == ScanLines(SplitLines(content), 1, <<>>, None, <<>>)

-----------------------------------------------------------------------------
(* Bounds and input sets                                                   *)

\* most lines of a document drawn at Init
MaxLines == 3

\* most times the client sends its modify_heading request
MaxCalls == 2

Stars(k) == [i \in 1..k |-> "*"]

\* every sequence of at most n lines of the pool, joined into the text of a
\* file; a sequence that ends with the empty line gives a text that ends with
\* a line break
Docs(pool, n) == {Join(ls) : ls \in UNION {[1..k -> pool] : k \in 0..n}}

\* lines the parser is run on: headings with and without a todo state, with
\* one blank or two after the markers and the keyword, a keyword alone,
\* a keyword followed by a blank only, text, an empty line, a non-heading "*x"
ParsePool ==
    { <<"*", " ", "x">>,
      <<"*", "*", " ", "TODO", " ", "x">>,
      <<"*", " ", " ", "DONE", " ", " ", "y">>,
      <<"*", " ", "TODO">>,
      <<"*", " ", "IN-PROGRESS", " ">>,
      <<"x">>,
      <<>>,
      <<"*", "x">> }

-----------------------------------------------------------------------------
(* State                                                                   *)

\* files     : the org directory, relative path -> text of the file
\* calls     : how many times the client has sent its modify_heading request
\* op        : the tool that ran last ("init": none yet)
\* arg       : the arguments of the modify_heading request
\* loc       : local variables of the last call, as they stood when it returned
\* ret       : what the last call returned

NoArg ==
    [file_path |-> "", heading_title |-> <<>>, new_title |-> None, new_content |-> None,
     new_todo_state |-> None]

NoLoc ==
    [file_path |-> "", content |-> <<>>, lines |-> <<>>, target_heading |-> None,
     heading_index |-> -1, heading_line |-> <<>>, content_text |-> <<>>,
     line_number |-> -1, end_line |-> -1, new_lines |-> <<>>,
     org_files |-> <<>>, unreadable |-> {}]

NoRet ==
    [status |-> "", error |-> "", source |-> "", headings |-> <<>>,
     scheduled |-> <<>>, todos |-> <<>>]

\* read_org_file: the text, or the message of the exception open() raised
ReadOrgFile(fs, file_path) ==
    IF file_path \in DOMAIN fs THEN fs[file_path] ELSE <<"Error reading file: ">>

\* read_file_headings: the error branch needs the text to start with "Error:",
\* which the message of read_org_file does not
ReadFileHeadings(file_path) ==
    /\ op' = "read_file_headings"
    /\ LET content == ReadOrgFile(files, file_path)
       IN /\ loc' = [NoLoc EXCEPT !.file_path = file_path, !.content = content]
          /\ ret' = IF StartsWith(content, <<"Error:">>)
                    THEN [NoRet EXCEPT !.status = "error", !.error = "read"]
                    ELSE [NoRet EXCEPT !.headings = ExtractHeadings(content)]
    /\ UNCHANGED <<files, calls, arg>>

ParseFiles == {"a.org", "b.org"}

InitParse ==
    /\ files \in [{"a.org"} -> Docs(ParsePool, MaxLines)]
    /\ calls = 0
    /\ op = "init"
    /\ arg = NoArg
    /\ loc = NoLoc
    /\ ret = NoRet

NextParse == \E f \in ParseFiles : ReadFileHeadings(f)

SpecParse == InitParse /\ [][NextParse]_vars

-----------------------------------------------------------------------------
(* modify_heading                                                          *)

\* lines a rewritten document is made of: headings titled "x" with no todo
\* state and with each of the three, one of them at level 2, a heading whose
\* title only ends with "x", text, an empty line
ModifyPool ==
    { <<"*", " ", "x">>,
      <<"*", " ", "TODO", " ", "x">>,
      <<"*", "*", " ", "IN-PROGRESS", " ", "x">>,
      <<"*", " ", "DONE", " ", "y", " ", "x">>,
      <<"c">>,
      <<>> }

\* the requests a client may send
Requests ==
    [file_path : {"a.org"},
     heading_title : {<<"x">>, <<"y", " ", "x">>},
     new_title : {None, Some(<<"z">>)},
     new_content : {None, Some(<<>>), Some(<<"d", "\n", "\n">>)},
     new_todo_state : {None, Some(<<>>), Some(<<"DONE">>), Some(<<"IN-PROGRESS">>)}]

\* the loop over enumerate(headings): the 0-based index of the first heading
\* whose title is heading_title, -1 when there is none
FindHeading(headings, heading_title) ==
    LET hit == {i \in 1..Len(headings) : headings[i].title = heading_title}
    IN IF hit = {} THEN -1 ELSE Min(hit) - 1

\* the modified heading line
HeadingLine(target_heading, new_title, new_todo_state) ==
    LET todo_state == IF new_todo_state # None THEN new_todo_state
                      ELSE target_heading.todo_state
        title == IF new_title # None THEN new_title[1] ELSE target_heading.title
    IN Stars(target_heading.level) \o <<" ">>
         \o (IF todo_state # None /\ todo_state[1] # <<>>
             THEN todo_state[1] \o <<" ">> ELSE <<>>)
         \o title

\* the test the line scan applies to one line
LineSelected(line, heading_title) ==
    LET m == HeadingMatch(line)
    IN /\ m.matched
       /\ EndsWith(m.text, heading_title)
       /\ \/ m.text = heading_title
          \/ StartsWith(m.text, <<"TODO", " ">>)
          \/ StartsWith(m.text, <<"DONE", " ">>)

\* the 0-based number of the first selected line, -1 when there is none
FindLineNumber(lines, heading_title) ==
    LET hit == {i \in 1..Len(lines) : LineSelected(lines[i], heading_title)}
    IN IF hit = {} THEN -1 ELSE Min(hit) - 1

\* EndLine stopping only at a heading of level 1
EndLineTopLevel(lines, line_number) ==
    LET hit == {i \in (line_number + 1)..(Len(lines) - 1) :
                   HeadingMatch(lines[i + 1]).matched
                   /\ HeadingMatch(lines[i + 1]).stars = 1}
    IN IF hit = {} THEN Len(lines) ELSE Min(hit)

\* the 0-based number of the first heading line after line_number, len(lines)
\* when there is none
EndLine(lines, line_number) ==
    LET hit == {i \in (line_number + 1)..(Len(lines) - 1) : IsHeadingLine(lines[i + 1])}
    IN IF hit = {} THEN Len(lines) ELSE Min(hit)

\* lines[:line_number] + [heading_line] + content_text.splitlines() + lines[end_line:]
NewLines(lines, line_number, end_line, heading_line, content_text) ==
    SubSeq(lines, 1, line_number) \o <<heading_line>> \o SplitLines(content_text)
        \o SubSeq(lines, end_line + 1, Len(lines))

\* the body of modify_heading on the text of an existing file: its locals and
\* what it returns
ModifyLocals(a, content) ==
    LET headings == ExtractHeadings(content)
        heading_index == FindHeading(headings, a.heading_title)
        base == [NoLoc EXCEPT !.file_path = a.file_path, !.content = content,
                              !.heading_index = heading_index]
    IN IF heading_index = -1
       THEN [loc |-> base,
             ret |-> [NoRet EXCEPT !.status = "error", !.error = "heading not found"]]
       ELSE
         LET target_heading == headings[heading_index + 1]
             heading_line == HeadingLine(target_heading, a.new_title, a.new_todo_state)
             content_text == IF a.new_content # None THEN a.new_content[1]
                             ELSE target_heading.content
             lines == SplitLines(content)
             line_number == FindLineNumber(lines, a.heading_title)
             found == [base EXCEPT !.target_heading = Some(target_heading),
                                   !.heading_line = heading_line,
                                   !.content_text = content_text,
                                   !.lines = lines,
                                   !.line_number = line_number]
         IN IF line_number = -1
            THEN [loc |-> found,
                  ret |-> [NoRet EXCEPT !.status = "error",
                                        !.error = "heading line not found"]]
            ELSE
              LET end_line == EndLine(lines, line_number)
              IN [loc |-> [found EXCEPT
                             !.end_line = end_line,
                             !.new_lines = NewLines(lines, line_number, end_line,
                                                    heading_line, content_text)],
                  ret |-> [NoRet EXCEPT !.status = "success"]]

\* modify_heading(**arg): the file is rewritten only on success
ModifyHeading ==
    /\ calls < MaxCalls
    /\ calls' = calls + 1
    /\ op' = "modify_heading"
    /\ IF arg.file_path \notin DOMAIN files
       THEN /\ loc' = [NoLoc EXCEPT !.file_path = arg.file_path]
            /\ ret' = [NoRet EXCEPT !.status = "error", !.error = "file does not exist"]
            /\ files' = files
       ELSE LET r == ModifyLocals(arg, files[arg.file_path])
            IN /\ loc' = r.loc
               /\ ret' = r.ret
               /\ files' = IF r.ret.status = "success"
                           THEN [files EXCEPT ![arg.file_path] = Join(r.loc.new_lines)]
                           ELSE files
    /\ UNCHANGED arg

\* the directory holds a.org or nothing; the client has one request to send
InitModify ==
    /\ \E names \in SUBSET {"a.org"} : files \in [names -> Docs(ModifyPool, MaxLines)]
    /\ calls = 0
    /\ op = "init"
    /\ arg \in Requests
    /\ loc = NoLoc
    /\ ret = NoRet

NextModify == ModifyHeading

SpecModify == InitModify /\ [][NextModify]_vars

-----------------------------------------------------------------------------
(* extract_scheduled_items, get_org_schedule, get_org_agenda                *)

\* most lines of the file of a one-file directory
MaxItemLines == 4

\* most lines of each file of a two-file directory
MaxDirLines == 2

\* the dates of the model, each with the digits of its characters in order
\* (every date has its two "-" in the same places)
DateDigits ==
    [d \in {"2023-12-31", "2024-01-10", "2024-01-15"} |->
        IF d = "2023-12-31" THEN <<2, 0, 2, 3, 1, 2, 3, 1>>
        ELSE IF d = "2024-01-10" THEN <<2, 0, 2, 4, 0, 1, 1, 0>>
        ELSE <<2, 0, 2, 4, 0, 1, 1, 5>>]

Dates == DOMAIN DateDigits

\* a < b for two str of digits: the first differing character decides, and a
\* proper prefix is the smaller
RECURSIVE DigitsLess(_, _)
DigitsLess(a, b) ==
    IF b = <<>> THEN FALSE
    ELSE IF a = <<>> THEN TRUE
    ELSE IF a[1] # b[1] THEN a[1] < b[1]
    ELSE DigitsLess(Tail(a), Tail(b))

\* x["date"] < y["date"], the comparison list.sort makes on the keys
DateLess(x, y) == DigitsLess(DateDigits[x], DateDigits[y])

\* lines with date markers: a scheduled line, a line with a deadline (its date
\* followed by a day name) and then a scheduled marker with no blank before
\* "<", a deadline whose ">" is missing, and two heading lines
SchedPool ==
    { <<"*", " ", "TODO", " ", "x">>,
      <<"*", "*", " ", "y">>,
      <<"SCHEDULED:", " ", "<", "2024-01-15", ">">>,
      <<"DEADLINE:", " ", "<", "2023-12-31", " ", "m", ">", " ",
        "SCHEDULED:", "<", "2024-01-10", ">">>,
      <<"DEADLINE:", " ", "<", "2024-01-10">> }

\* marker\s*<(\d{4}-\d{2}-\d{2})(?: [^>]*)?> matched at position i of s: the
\* position of the date, 0 when there is no match at i
MarkerAt(s, i, marker) ==
    IF s[i] # marker THEN 0
    ELSE LET j == i + 1 + Run(Drop(s, i + 1), Whitespace)
         IN IF /\ j + 2 <= Len(s)
               /\ s[j] = "<"
               /\ s[j + 1] \in Dates
               /\ \/ s[j + 2] = ">"
                  \/ s[j + 2] = " " /\ \E p \in (j + 3)..Len(s) : s[p] = ">"
            THEN j + 1
            ELSE 0

\* pattern.search(s): group 1 of the leftmost match, None when there is none
SearchDate(s, marker) ==
    LET hit == {i \in 1..Len(s) : MarkerAt(s, i, marker) # 0}
    IN IF hit = {} THEN None ELSE Some(s[MarkerAt(s, Min(hit), marker)])

Item(type, date, heading) ==
    [type |-> type, date |-> date, title |-> heading.title,
     todo_state |-> heading.todo_state, level |-> heading.level, file |-> ""]

\* HeadingItems with the two appends in the other order
HeadingItemsDeadlineFirst(heading) ==
    LET scheduled_match == SearchDate(heading.content, "SCHEDULED:")
        deadline_match == SearchDate(heading.content, "DEADLINE:")
    IN (IF deadline_match # None
        THEN <<Item("deadline", deadline_match[1], heading)>> ELSE <<>>)
       \o (IF scheduled_match # None
           THEN <<Item("scheduled", scheduled_match[1], heading)>> ELSE <<>>)

\* the items one heading appends: the scheduled one, then the deadline one
HeadingItems(heading) ==
    LET scheduled_match == SearchDate(heading.content, "SCHEDULED:")
        deadline_match == SearchDate(heading.content, "DEADLINE:")
    IN (IF scheduled_match # None
        THEN <<Item("scheduled", scheduled_match[1], heading)>> ELSE <<>>)
       \o (IF deadline_match # None
           THEN <<Item("deadline", deadline_match[1], heading)>> ELSE <<>>)

\* the loop over headings
RECURSIVE ItemsOf(_)
ItemsOf(headings) ==
    IF headings = <<>> THEN <<>>
    ELSE HeadingItems(headings[1]) \o ItemsOf(Tail(headings))

ExtractScheduledItems(content) == ItemsOf(ExtractHeadings(content))

\* item["file"] = rel_path for every item of one file
RECURSIVE WithFile(_, _)
WithFile(items, rel_path) ==
    IF items = <<>> THEN <<>>
    ELSE <<[items[1] EXCEPT !.file = rel_path]>> \o WithFile(Tail(items), rel_path)

\* the todos get_org_agenda collects from the headings of one file
RECURSIVE TodosOf(_, _)
TodosOf(headings, rel_path) ==
    IF headings = <<>> THEN <<>>
    ELSE (IF headings[1].todo_state \in {Some(<<"TODO">>), Some(<<"IN-PROGRESS">>)}
          THEN <<[file |-> rel_path, heading |-> headings[1].title,
                  state |-> headings[1].todo_state[1]]>>
          ELSE <<>>)
         \o TodosOf(Tail(headings), rel_path)

\* x put into the sorted list s behind every item that is not later than x
RECURSIVE Insert(_, _)
Insert(s, x) ==
    IF s = <<>> THEN <<x>>
    ELSE IF DateLess(x.date, s[1].date) THEN <<x>> \o s
    ELSE <<s[1]>> \o Insert(Tail(s), x)

RECURSIVE SortFrom(_, _)
SortFrom(done, rest) ==
    IF rest = <<>> THEN done ELSE SortFrom(Insert(done, rest[1]), Tail(rest))

\* SortByDate leaving the list as it was appended
SortByDateSkipped(items) == items

\* scheduled_items.sort(key=lambda x: x["date"]): ascending and stable
SortByDate(items) == SortFrom(<<>>, items)

\* the loop over org_files of both tools: a file whose open() raises is skipped
RECURSIVE Collect(_, _, _)
Collect(fs, org_files, unreadable) ==
    IF org_files = <<>> THEN [scheduled |-> <<>>, todos |-> <<>>]
    ELSE LET rel_path == org_files[1]
             rest == Collect(fs, Tail(org_files), unreadable)
         IN IF rel_path \in unreadable THEN rest
            ELSE [scheduled |-> WithFile(ExtractScheduledItems(fs[rel_path]), rel_path)
                                  \o rest.scheduled,
                  todos |-> TodosOf(ExtractHeadings(fs[rel_path]), rel_path)
                               \o rest.todos]

\* the orders path.glob may list the files in
GlobOrders(fs) ==
    {o \in UNION {[1..Cardinality(DOMAIN fs) -> DOMAIN fs]} :
        \A i, j \in 1..Len(o) : i # j => o[i] # o[j]}

\* extract_scheduled_items(content) on the text of one file
ExtractScheduledItemsCall(file_path) ==
    /\ calls = 0 /\ op = "init"
    /\ file_path \in DOMAIN files
    /\ op' = "extract_scheduled_items"
    /\ loc' = [NoLoc EXCEPT !.file_path = file_path, !.content = files[file_path]]
    /\ ret' = [NoRet EXCEPT !.scheduled = ExtractScheduledItems(files[file_path])]
    /\ UNCHANGED <<files, calls, arg>>

\* both tools when no Emacs output starts with "Error"
EmacsAnswers(tool) ==
    /\ calls = 0 /\ op = "init"
    /\ op' = tool
    /\ loc' = NoLoc
    /\ ret' = [NoRet EXCEPT !.source = "org_agenda_command"]
    /\ UNCHANGED <<files, calls, arg>>

\* get_org_schedule, manual parsing fallback
GetOrgScheduleManual ==
    \E org_files \in GlobOrders(files), unreadable \in SUBSET DOMAIN files :
        /\ calls = 0 /\ op = "init"
        /\ op' = "get_org_schedule"
        /\ loc' = [NoLoc EXCEPT !.org_files = org_files, !.unreadable = unreadable]
        /\ ret' = [NoRet EXCEPT
                     !.source = "manual_parsing",
                     !.scheduled =
                         SortByDate(Collect(files, org_files, unreadable).scheduled)]
        /\ UNCHANGED <<files, calls, arg>>

\* get_org_agenda, manual parsing fallback
GetOrgAgendaManual ==
    \E org_files \in GlobOrders(files), unreadable \in SUBSET DOMAIN files :
        /\ calls = 0 /\ op = "init"
        /\ op' = "get_org_agenda"
        /\ loc' = [NoLoc EXCEPT !.org_files = org_files, !.unreadable = unreadable]
        /\ ret' = [NoRet EXCEPT
                     !.source = "manual_parsing",
                     !.todos = Collect(files, org_files, unreadable).todos,
                     !.scheduled =
                         SortByDate(Collect(files, org_files, unreadable).scheduled)]
        /\ UNCHANGED <<files, calls, arg>>

GetOrgSchedule == EmacsAnswers("get_org_schedule") \/ GetOrgScheduleManual

GetOrgAgenda == EmacsAnswers("get_org_agenda") \/ GetOrgAgendaManual

\* the directory holds one file of up to MaxItemLines lines or two files of up
\* to MaxDirLines lines each; no tool of this section writes a file, so one
\* call per behaviour reaches every result there is
InitSchedule ==
    /\ \/ files \in [{"a.org"} -> Docs(SchedPool, MaxItemLines)]
       \/ files \in [{"a.org", "b.org"} -> Docs(SchedPool, MaxDirLines)]
    /\ calls = 0
    /\ op = "init"
    /\ arg = NoArg
    /\ loc = NoLoc
    /\ ret = NoRet

NextSchedule ==
    \/ \E f \in {"a.org", "b.org"} : ExtractScheduledItemsCall(f)
    \/ GetOrgSchedule
    \/ GetOrgAgenda

SpecSchedule == InitSchedule /\ [][NextSchedule]_vars

-----------------------------------------------------------------------------
(* Properties of extract_headings, under SpecParse                         *)

Parsed == op = "read_file_headings" /\ ret.status = ""

\* the lines of the text the last call read
ReadLines == SplitLines(loc.content)

\* each heading's raw line followed by the lines of its content, in order
RECURSIVE Rebuild(_)
Rebuild(hs) ==
    IF hs = <<>> THEN <<>>
    ELSE <<hs[1].raw>> \o SplitLines(hs[1].content) \o Rebuild(Tail(hs))

\* line is one or more markers, one or more blanks, and nothing but the symbol kw
KeywordOnly(line, kw) ==
    /\ Len(line) >= 3
    /\ line[Len(line)] = kw
    /\ \E k \in 1..(Len(line) - 2) :
          /\ \A i \in 1..k : line[i] = "*"
          /\ \A i \in (k + 1)..(Len(line) - 1) : line[i] \in Whitespace

\* line is one or more markers, one or more blanks, kw, and blanks to its end
KeywordThenBlanks(line, kw) ==
    \E n \in 3..(Len(line) - 1) :
        /\ KeywordOnly(SubSeq(line, 1, n), kw)
        /\ \A i \in (n + 1)..Len(line) : line[i] \in Whitespace

\* an empty line stands directly before a heading line or ends the document
BlankBeforeBoundary(lines) ==
    \E i \in 1..Len(lines) :
        /\ lines[i] = <<>>
        /\ (i = Len(lines) \/ (\E k \in 1..Len(lines[i + 1]) : lines[i + 1][k] = "*"
                                 /\ \A j \in 1..k : lines[i + 1][j] = "*"
                                 /\ k < Len(lines[i + 1])
                                 /\ lines[i + 1][k + 1] \in Whitespace))

HeadingFirst == ReadLines # <<>> /\ IsHeadingLine(ReadLines[1])

\* C2 as stated: whenever the document starts with a heading line, the raw line
\* and content of every parsed heading, concatenated in order, give back the
\* lines of the document, blank lines between headings included.
C2_RoundTrip == (Parsed /\ HeadingFirst) => Rebuild(ret.headings) = ReadLines

\* C2 amended: the same, for the documents in which no empty line stands
\* directly before a heading line or at the end of the document.
C2_RoundTripNoTrailingBlank ==
    (Parsed /\ HeadingFirst /\ ~BlankBeforeBoundary(ReadLines))
        => Rebuild(ret.headings) = ReadLines

\* a parse of a heading with an empty line inside its content
C2_Witness ==
    /\ Parsed /\ HeadingFirst /\ ~BlankBeforeBoundary(ReadLines)
    /\ Len(ReadLines) = 3
    /\ ret.headings[1].content = <<"\n", "x">>

\* one blank after the markers and one after the keyword in the raw line
SingleSpaced(h) ==
    /\ Len(h.raw) >= h.level + 3
    /\ h.raw[h.level + 1] = " "
    /\ h.raw[h.level + 2] \in Keywords
    /\ h.raw[h.level + 3] = " "
    /\ (Len(h.raw) > h.level + 3 => h.raw[h.level + 4] \notin Whitespace)

Reformat(h) == Stars(h.level) \o <<" ">> \o h.todo_state[1] \o <<" ">> \o h.title

\* C4 as stated: for every parsed heading with a todo state S, level k and
\* title T, k markers, a space, S, a space and T make up its raw line.
C4_TodoRoundTrip ==
    Parsed => \A i \in 1..Len(ret.headings) :
                 ret.headings[i].todo_state # None
                     => Reformat(ret.headings[i]) = ret.headings[i].raw

\* C4 amended: the same, for the headings whose raw line has exactly one space
\* after the markers and exactly one after the todo-state token.
C4_TodoRoundTripSingleSpaced ==
    Parsed => \A i \in 1..Len(ret.headings) :
                 (ret.headings[i].todo_state # None /\ SingleSpaced(ret.headings[i]))
                     => Reformat(ret.headings[i]) = ret.headings[i].raw

\* a parsed, singly spaced heading of level 2 with a todo state and a title
C4_Witness ==
    /\ Parsed
    /\ \E i \in 1..Len(ret.headings) :
          /\ ret.headings[i].todo_state = Some(<<"TODO">>)
          /\ SingleSpaced(ret.headings[i])
          /\ ret.headings[i].level = 2
          /\ ret.headings[i].title = <<"x">>

\* C10 as stated: a heading line whose free text is a todo-state token and
\* nothing else parses to a heading with the empty title.
C10_KeywordOnlyEmptyTitle ==
    Parsed => \A i \in 1..Len(ret.headings) :
                 (\E kw \in Keywords : KeywordOnly(ret.headings[i].raw, kw))
                     => ret.headings[i].title = <<>>

\* C10 amended: such a line parses to a heading whose title is the token and
\* whose todo state is absent; the title is empty, and the token the todo
\* state, when the token is followed by blanks and nothing else.
C10_KeywordOnlyIsTitle ==
    Parsed => \A i \in 1..Len(ret.headings) : \A kw \in Keywords :
                 /\ KeywordOnly(ret.headings[i].raw, kw)
                       => /\ ret.headings[i].title = <<kw>>
                          /\ ret.headings[i].todo_state = None
                 /\ KeywordThenBlanks(ret.headings[i].raw, kw)
                       => /\ ret.headings[i].title = <<>>
                          /\ ret.headings[i].todo_state = Some(<<kw>>)

\* a parse that met a keyword-only heading line and a keyword-then-blank one
C10_Witness ==
    /\ Parsed
    /\ \E i, j \in 1..Len(ret.headings) :
          /\ KeywordOnly(ret.headings[i].raw, "TODO")
          /\ KeywordThenBlanks(ret.headings[j].raw, "IN-PROGRESS")

-----------------------------------------------------------------------------
(* Properties of modify_heading, under SpecModify                          *)

Called == op = "modify_heading" /\ ret.error # "file does not exist"

Modified == op = "modify_heading" /\ ret.status = "success"

\* the lines of the file as the last call read it
OldLines == SplitLines(loc.content)

\* 1-based number of the line the last call rewrote
BlockStart == loc.line_number + 1

\* line is a heading line: markers, then a blank
HeadingShaped(line) ==
    \E k \in 1..(Len(line) - 1) :
        /\ \A j \in 1..k : line[j] = "*"
        /\ line[k + 1] \in Whitespace

\* 1-based number of the first heading line after BlockStart, one past the
\* last line when there is none
BlockEnd ==
    LET later == {i \in (BlockStart + 1)..Len(OldLines) : HeadingShaped(OldLines[i])}
    IN IF later = {} THEN Len(OldLines) + 1 ELSE Min(later)

\* the number of lines from BlockEnd to the end of the document
TailLen == Len(OldLines) - BlockEnd + 1

C3_FoundWhenTitlePresent ==
    Called =>
        ((\E i \in 1..Len(ExtractHeadings(loc.content)) :
              ExtractHeadings(loc.content)[i].title = arg.heading_title)
            => ret.status = "success")

\* the free text the claim lets the rewritten line have: the title, or the
\* title after "TODO " or "DONE "
TitledLine(line, title) ==
    /\ HeadingShaped(line)
    /\ HeadingMatch(line).text
          \in {title, <<"TODO", " ">> \o title, <<"DONE", " ">> \o title}

\* C7 as stated: the rewritten line is the first heading line whose free text
\* is heading_title, or heading_title after a leading "TODO " or "DONE ".
C7_FirstTitledLine ==
    Modified =>
        /\ TitledLine(OldLines[BlockStart], arg.heading_title)
        /\ \A i \in 1..(BlockStart - 1) : ~TitledLine(OldLines[i], arg.heading_title)

\* C8 as stated: with no new_content, the lines that replace the block's
\* content are the old lines between the heading line and the next heading
\* line, blank lines included.
C8_ContentKept ==
    (Modified /\ arg.new_content = None) =>
        SubSeq(loc.new_lines, BlockStart + 1, Len(loc.new_lines) - TailLen)
            = SubSeq(OldLines, BlockStart + 1, BlockEnd - 1)

\* C9 as stated: the replacement heading line has the marker count of the line
\* it replaces and, where no new todo state / title is given, the todo state /
\* title that line parses to.
C9_FieldsKept ==
    Modified =>
        LET old == NewHeading(OldLines[BlockStart])
            new == NewHeading(loc.heading_line)
        IN /\ Run(loc.heading_line, {"*"}) = Run(OldLines[BlockStart], {"*"})
           /\ arg.new_todo_state = None => new.todo_state = old.todo_state
           /\ arg.new_title = None => new.title = old.title

-----------------------------------------------------------------------------
(* Properties of the scheduled items, under SpecSchedule                   *)

\* content holds a match of the marker's pattern
HasMarker(content, marker) == \E i \in 1..Len(content) : MarkerAt(content, i, marker) # 0

\* position of the first symbol `marker` in content, 0 when there is none
FirstAt(content, marker) ==
    LET at == {i \in 1..Len(content) : content[i] = marker}
    IN IF at = {} THEN 0 ELSE Min(at)

Owner(type, h) ==
    [type |-> type, title |-> h.title, todo_state |-> h.todo_state, level |-> h.level]

\* what the claim lets the headings contribute: for each heading in order,
\* a scheduled item if it has the scheduled marker, then a deadline item if it
\* has the deadline marker, each with the heading's title, todo state and level
RECURSIVE Expected(_)
Expected(hs) ==
    IF hs = <<>> THEN <<>>
    ELSE (IF HasMarker(hs[1].content, "SCHEDULED:")
          THEN <<Owner("scheduled", hs[1])>> ELSE <<>>)
         \o (IF HasMarker(hs[1].content, "DEADLINE:")
             THEN <<Owner("deadline", hs[1])>> ELSE <<>>)
         \o Expected(Tail(hs))

Extracted == op = "extract_scheduled_items"

\* C5: the items come in heading order; a heading with neither marker gives
\* none, a heading with both gives two, the scheduled one first, whichever
\* marker its content has first; each item has its heading's title, todo state
\* and level.
C5_ItemsPerHeading ==
    Extracted =>
        /\ Len(ret.scheduled) = Len(Expected(ExtractHeadings(loc.content)))
        /\ \A i \in 1..Len(ret.scheduled) :
              Owner(ret.scheduled[i].type, ret.scheduled[i])
                  = Expected(ExtractHeadings(loc.content))[i]

\* two headings with items, the second with both markers and the deadline
\* marker first in its content
C5_Witness ==
    /\ Extracted
    /\ Len(ExtractHeadings(loc.content)) = 2
    /\ Len(ret.scheduled) = 3
    /\ ret.scheduled[1].title # ret.scheduled[2].title
    /\ ret.scheduled[2].type = "scheduled"
    /\ ret.scheduled[3].type = "deadline"
    /\ LET c == ExtractHeadings(loc.content)[2].content
       IN FirstAt(c, "DEADLINE:") < FirstAt(c, "SCHEDULED:")

ManualParsed ==
    op \in {"get_org_schedule", "get_org_agenda"} /\ ret.source = "manual_parsing"

\* C6: on the manual-parsing path of both tools the returned items are in
\* ascending order of their date strings: no item's date is greater than the
\* date of the item after it.
C6_SortedByDate ==
    ManualParsed =>
        \A i \in 1..(Len(ret.scheduled) - 1) :
            ~DateLess(ret.scheduled[i + 1].date, ret.scheduled[i].date)

\* items of two files, listed a.org first, with an item of b.org sorted to the
\* front and the item of a.org to the end
C6_Witness ==
    /\ ManualParsed
    /\ op = "get_org_schedule"
    /\ loc.org_files = <<"a.org", "b.org">>
    /\ Len(ret.scheduled) = 3
    /\ ret.scheduled[1].file = "b.org"
    /\ ret.scheduled[3].file = "a.org"
    /\ DateLess(ret.scheduled[1].date, ret.scheduled[2].date)

-----------------------------------------------------------------------------
(* The parser's scan, under SpecParse                                      *)

\* the numbers of the heading lines of the text read, in ascending order
RECURSIVE HeadingLineNumbers(_, _)
HeadingLineNumbers(lines, i) ==
    IF i > Len(lines) THEN <<>>
    ELSE (IF HeadingShaped(lines[i]) THEN <<i>> ELSE <<>>)
         \o HeadingLineNumbers(lines, i + 1)

\* the number of the line that ends the block of the k-th heading line: the
\* next heading line, or one past the last line
NextBoundary(at, k, lines) == IF k < Len(at) THEN at[k + 1] ELSE Len(lines) + 1

\* C11: the scan emits one heading per heading line, in document order; the
\* content of each is the lines strictly between its heading line and the next
\* heading line of any level (or the end of the input), joined by line breaks,
\* none of them a heading line; so the lines before the first heading line are
\* in no heading, and an input with no heading line gives the empty result.
C11_OneHeadingPerHeadingLine ==
    Parsed =>
        LET at == HeadingLineNumbers(ReadLines, 1)
        IN /\ Len(ret.headings) = Len(at)
           /\ \A k \in 1..Len(at) :
                 /\ ret.headings[k].raw = ReadLines[at[k]]
                 /\ ret.headings[k].content
                       = Join(SubSeq(ReadLines, at[k] + 1, NextBoundary(at, k, ReadLines) - 1))
                 /\ \A n \in 1..Len(SplitLines(ret.headings[k].content)) :
                       ~HeadingShaped(SplitLines(ret.headings[k].content)[n])
           /\ (at = <<>> => ret.headings = <<>>)

\* a text line before the first heading line, and after the heading line
\* "*x", a line that starts with a marker and is no heading line, as content
C11_Witness ==
    /\ Parsed
    /\ Len(ReadLines) = 3
    /\ ReadLines[1] = <<"x">>
    /\ HeadingLineNumbers(ReadLines, 1) = <<2>>
    /\ Len(ret.headings) = 1
    /\ ret.headings[1].content = <<"*", "x">>

-----------------------------------------------------------------------------
(* Repeating a request, under SpecModify                                   *)

\* C12 as stated: when a call that gives no new_title has succeeded, the same
\* call made again on the resulting document succeeds and leaves the document
\* as it is.
C12_Idempotent ==
    [][(Modified /\ arg.new_title = None)
          => (ret'.status = "success" /\ files' = files)]_vars

====
